---- MODULE Spec2Model ----
(***************************************************************************)
(* Model of the structured-content-to-slide-deck pipeline of morphx        *)
(* (src/morphx/tools/genppt.py, class PPTGenerator).                       *)
(*                                                                         *)
(* Text is a sequence of symbols.  A symbol stands for a fixed piece of    *)
(* text: one character ("SP" a space, "NL" a newline, "BT" a backtick,     *)
(* "*", "+", "-", ".", a digit, the letters "x" and "y"), or a keyword of  *)
(* the input grammar that the regular expressions of the code match as a   *)
(* literal ("###", "Slide", "Identifier:", "ID:", "Main", "Title:", "Sub", *)
(* "KPD:" for `Key Points and Description:`, "KP:" for `Key Points:`,      *)
(* "Content:"), "SL" for the two letters of the default identifier and "P" *)
(* for a run of 49 letters.  `Subtitle:` is the two symbols "Sub" "Title:" *)
(* and `Main Title:` is "Main" "SP" "Title:", so a pattern that looks for  *)
(* `Title:` sees it wherever the text has it.  Each regular expression of  *)
(* the code is an operator that computes the match Python's backtracking   *)
(* matcher returns (leftmost match, greedy and lazy quantifiers).          *)
(***************************************************************************)
EXTENDS Integers, Sequences, FiniteSets, TLC

VARIABLES
    content,               \* content_text handed to the pipeline
    use_llm_enhancement,   \* flag of process_content_to_structure
    has_llm_attrs,         \* does the instance have `tokenizer` and `model`
    pc,                    \* position in the running call
    slide_sections,        \* result of extract_slides_from_content
    i,                     \* loop index of process_content_to_structure
    slide_text,            \* arguments of the running parse_slide_section
    slide_num,
    slide_data,            \* the slide record being built
    all_slides,            \* accumulated slides
    main_title,            \* main title taken from the first section
    llm,                   \* outcome of the last language-model call
    enhance_calls,         \* section numbers handed to the enhancer, in order
    result,                \* value returned or error raised by the call
    slides_model,          \* state of the SlideModel handed to the generator
    structure,             \* structure handed to create_presentation
    disk,                  \* output directory and file of create_presentation
    render_calls,          \* number of calls of create_presentation
    slides,                \* slides split by validate_slide_content
    log                    \* records logged by validate_slide_content

\* state of the rendering stage and of the validator
render_vars == <<slides_model, structure, disk, render_calls>>
validate_vars == <<slides, log>>

vars == <<content, use_llm_enhancement, has_llm_attrs, pc, slide_sections, i,
          slide_text, slide_num, slide_data, all_slides, main_title, llm,
          enhance_calls, result, render_vars, validate_vars>>

----------------------------------------------------------------------------
(* Bounds of the model *)

MaxBlocks == 2      \* slide blocks in one content text
MaxPoints == 1      \* numbered items in one generated block
MaxFieldLines == 2  \* field lines of a section handed directly to the parser
MaxKPLines == 4     \* lines of a key-points block handed directly to the parser
MaxKeyPoints == 2   \* key points of a slide handed directly to the enhancer
MaxNum == 2         \* section positions handed directly to the parser
MaxResp == 4        \* symbols of a language-model response

----------------------------------------------------------------------------
(* Text helpers *)

WS == {"SP", "NL"}
Digits == {"1", "2", "3"}
SlideKw == {"Slide", "slide"}

\* number of characters of the text a symbol stands for
SymLen(c) ==
    CASE c = "###" -> 3
      [] c \in SlideKw -> 5
      [] c = "Identifier:" -> 11
      [] c = "ID:" -> 3
      [] c = "Main" -> 4
      [] c = "Title:" -> 6
      [] c = "Sub" -> 3
      [] c = "KPD:" -> 27
      [] c = "KP:" -> 11
      [] c = "Content:" -> 8
      [] c = "SL" -> 2
      [] c = "P" -> 49
      [] OTHER -> 1

RECURSIVE CharLen(_)
\* len(s) of Python for the text s
CharLen(s) == IF s = <<>> THEN 0 ELSE SymLen(Head(s)) + CharLen(Tail(s))

\* the symbol at position k, "EOF" outside the text
At(s, k) == IF k \in 1..Len(s) THEN s[k] ELSE "EOF"

RECURSIVE SkipWhile(_, _, _)
\* first position at or after k whose symbol is not in S (a greedy run)
SkipWhile(s, k, S) ==
    IF k <= Len(s) /\ s[k] \in S THEN SkipWhile(s, k + 1, S) ELSE k

RECURSIVE SkipUntil(_, _, _)
\* first position at or after k whose symbol is in S, Len(s)+1 when none
SkipUntil(s, k, S) ==
    IF k <= Len(s) /\ s[k] \notin S THEN SkipUntil(s, k + 1, S) ELSE k

\* position of the last newline in s[a..b-1], 0 when there is none
LastNL(s, a, b) ==
    IF \E j \in a..(b - 1) : At(s, j) = "NL"
    THEN CHOOSE j \in a..(b - 1) :
            /\ At(s, j) = "NL"
            /\ \A m \in (j + 1)..(b - 1) : At(s, m) # "NL"
    ELSE 0

SetMin(S) == CHOOSE m \in S : \A n \in S : m <= n
SetMax(S) == CHOOSE m \in S : \A n \in S : m >= n

\* str.strip(): surrounding whitespace removed
Strip(s) ==
    LET idx == {k \in 1..Len(s) : s[k] \notin WS}
    IN  IF idx = {} THEN <<>> ELSE SubSeq(s, SetMin(idx), SetMax(idx))

RECURSIVE SplitLines(_)
\* str.split('\n')
SplitLines(s) ==
    LET n == SkipUntil(s, 1, {"NL"})
    IN  IF n > Len(s) THEN <<s>>
        ELSE <<SubSeq(s, 1, n - 1)>> \o SplitLines(SubSeq(s, n + 1, Len(s)))

RECURSIVE Flatten(_)
\* concatenation of a sequence of texts
Flatten(ss) == IF ss = <<>> THEN <<>> ELSE Head(ss) \o Flatten(Tail(ss))

RECURSIVE JoinSP(_)
\* ' '.join(lines)
JoinSP(ls) ==
    IF ls = <<>> THEN <<>>
    ELSE IF Len(ls) = 1 THEN ls[1]
    ELSE ls[1] \o <<"SP">> \o JoinSP(Tail(ls))

----------------------------------------------------------------------------
(* extract_slides_from_content *)

\* `###\s*\*?Slide\s+\d+` at p: the position after the digits, 0 if no match
HeaderDigitsEnd(s, p) ==
    IF At(s, p) # "###" THEN 0
    ELSE LET a == SkipWhile(s, p + 1, WS)
             b == IF At(s, a) = "*" THEN a + 1 ELSE a
         IN  IF At(s, b) \notin SlideKw THEN 0
             ELSE LET c == SkipWhile(s, b + 1, WS)
                  IN  IF c = b + 1 \/ At(s, c) \notin Digits THEN 0
                      ELSE SkipWhile(s, c, Digits)

\* `###\s*\*?Slide\s+\d+\*?\s*\n` at p: the position after the match, 0 if none
HeaderEnd(s, p) ==
    LET d == HeaderDigitsEnd(s, p)
    IN  IF d = 0 THEN 0
        ELSE LET e == IF At(s, d) = "*" THEN d + 1 ELSE d
                 f == SkipWhile(s, e, WS)
                 n == LastNL(s, e, f)
             IN  IF n = 0 THEN 0 ELSE n + 1

\* SectionStops without the next-header alternative of the lookahead
SectionStops_EndOnly(s, q) ==
    \/ q = Len(s) + 1
    \/ q = Len(s) /\ At(s, q) = "NL"

\* the lookahead `(?=###\s*\*?Slide\s+\d+|$)` at q
SectionStops(s, q) ==
    \/ HeaderDigitsEnd(s, q) # 0
    \/ q = Len(s) + 1
    \/ q = Len(s) /\ At(s, q) = "NL"

RECURSIVE SectionEnd(_, _)
\* lazy `(.*?)`: the first position at or after q where the lookahead holds
SectionEnd(s, q) == IF SectionStops(s, q) THEN q ELSE SectionEnd(s, q + 1)

RECURSIVE PrimarySections(_, _)
\* re.findall(slide_pattern, content_text, DOTALL | IGNORECASE) from position p
PrimarySections(s, p) ==
    IF p > Len(s) THEN <<>>
    ELSE LET h == HeaderEnd(s, p)
         IN  IF h = 0 THEN PrimarySections(s, p + 1)
             ELSE LET q == SectionEnd(s, h)
                  IN  <<SubSeq(s, h, q - 1)>> \o PrimarySections(s, q)

RECURSIVE SplitHashes(_, _, _)
\* re.split(r'###\s+', content_text): the pieces between the matches
SplitHashes(s, start, p) ==
    IF p > Len(s) THEN <<SubSeq(s, start, Len(s))>>
    ELSE IF s[p] = "###" /\ At(s, p + 1) \in WS
         THEN LET e == SkipWhile(s, p + 1, WS)
              IN  <<SubSeq(s, start, p - 1)>> \o SplitHashes(s, e, e)
         ELSE SplitHashes(s, start, p + 1)

\* minimum length of a fallback fragment
MinFragmentLen == 50

\* [s.strip() for s in slides if s.strip() and len(s) > 50]
FallbackSections(s) ==
    LET pieces == SplitHashes(s, 1, 1)
        keep == SelectSeq(pieces,
                    LAMBDA t : Strip(t) # <<>> /\ CharLen(t) > MinFragmentLen)
    IN  [k \in 1..Len(keep) |-> Strip(keep[k])]

\* the sections found, the fallback being tried when the primary finds none
FoundSections(s) ==
    LET primary == PrimarySections(s, 1)
    IN  IF primary # <<>> THEN primary ELSE FallbackSections(s)

Returned(v) == [kind |-> "return", value |-> v]
Raised(e, m) == [kind |-> "raise", error |-> e, message |-> m]
NoResult == [kind |-> "none"]

\* extract_slides_from_content without the check that a section was found
extract_slides_NoCheck(s) ==
    IF s = <<>> \/ Strip(s) = <<>>
    THEN Raised("ContentParsingError", "Content is empty")
    ELSE Returned(FoundSections(s))

\* the outcome of extract_slides_from_content(content_text)
extract_slides_from_content(s) ==
    IF s = <<>> \/ Strip(s) = <<>>
    THEN Raised("ContentParsingError", "Content is empty")
    ELSE IF FoundSections(s) = <<>>
         THEN Raised("ContentParsingError", "No valid slide sections found in content")
         ELSE Returned(FoundSections(s))

----------------------------------------------------------------------------
(* parse_slide_section *)

NoMatch == [found |-> FALSE, value |-> <<>>]
Match(v) == [found |-> TRUE, value |-> v]

\* re.search: of the matches ms[p] the pattern has at each position p, the one
\* at the leftmost position
Search(ms) ==
    LET ps == {p \in DOMAIN ms : ms[p].found}
    IN  IF ps = {} THEN NoMatch ELSE ms[SetMin(ps)]

IdLabels == {"Identifier:", "ID:"}

\* characters of `[^`\n]`
IdChar(c) == c \notin {"BT", "NL", "EOF"}

\* `(?:Identifier|ID):\s*`?([^`\n]+)`?` at p; the value is group 1.
\* `\s*` is greedy and gives characters back until a backtick followed by a
\* token character, or a token character, comes next.
IdMatchAt(s, p) ==
    IF At(s, p) \notin IdLabels THEN NoMatch
    ELSE LET w == SkipWhile(s, p + 1, WS)
             quoted(r) == At(s, r) = "BT" /\ IdChar(At(s, r + 1))
             ok == {r \in (p + 1)..w : quoted(r) \/ IdChar(At(s, r))}
         IN  IF ok = {} THEN NoMatch
             ELSE LET r == SetMax(ok)
                      b == IF quoted(r) THEN r + 1 ELSE r
                      e == SkipUntil(s, b, {"BT", "NL"})
                  IN  Match(SubSeq(s, b, e - 1))

\* `\s*(.+?)(?:\n|$)` from position l: the rest of a line.  `\s*` crosses
\* newlines, and gives characters back until one that is not a newline comes
\* next; the lazy group then runs to the end of that line.
RestOfLine(s, l) ==
    LET w == SkipWhile(s, l, WS)
        ok == {r \in l..w : At(s, r) \notin {"NL", "EOF"}}
    IN  IF ok = {} THEN NoMatch
        ELSE LET r == SetMax(ok)
                 e == SkipUntil(s, r, {"NL"})
             IN  Match(SubSeq(s, r, e - 1))

\* `(?:Main\s+Title|Title):` at p: the position after the label, 0 if none
TitleLabelEnd(s, p) ==
    IF At(s, p) = "Title:" THEN p + 1
    ELSE IF At(s, p) = "Main"
         THEN LET w == SkipWhile(s, p + 1, WS)
              IN  IF w > p + 1 /\ At(s, w) = "Title:" THEN w + 1 ELSE 0
         ELSE 0

\* `(?:Main\s+Title|Title):\s*(.+?)(?:\n|$)` at p
TitleMatchAt(s, p) ==
    IF TitleLabelEnd(s, p) = 0 THEN NoMatch
    ELSE RestOfLine(s, TitleLabelEnd(s, p))

\* `Subtitle:\s*(.+?)(?:\n|$)` at p
SubtitleMatchAt(s, p) ==
    IF At(s, p) = "Sub" /\ At(s, p + 1) = "Title:"
    THEN RestOfLine(s, p + 2)
    ELSE NoMatch

KeyPointsLabels == {"KPD:", "KP:", "Content:"}

\* `(?:Key\s+Points(?:\s+and\s+Description)?|Content):\s*\n(.*)` at p
KeyPointsMatchAt(s, p) ==
    IF At(s, p) \notin KeyPointsLabels THEN NoMatch
    ELSE LET w == SkipWhile(s, p + 1, WS)
             n == LastNL(s, p + 1, w)
         IN  IF n = 0 THEN NoMatch ELSE Match(SubSeq(s, n + 1, Len(s)))

\* characters of `[^\n*]`
TitleChar(c) == c \notin {"NL", "*", "EOF"}

StarsAt(s, x) == SkipWhile(s, x, {"*"}) - x

\* `(\d+)\.\s+\*?\*?([^\n*]+)\*?\*?\s*\n+` at p, x being the position after
\* `\s+`: title start, title end and body start, or 0 when x does not match
PointHead(s, x) ==
    LET ls == StarsAt(s, x)
        t == x + ls
        z == SkipUntil(s, t, {"NL", "*"})
        a == StarsAt(s, z)
        f == SkipWhile(s, z + a, WS)
        n == LastNL(s, z + a, f)
    IN  IF ls <= 2 /\ TitleChar(At(s, t)) /\ a <= 2 /\ n # 0
        THEN [ok |-> TRUE, from |-> t, to |-> z, body |-> n + 1]
        ELSE [ok |-> FALSE, from |-> 0, to |-> 0, body |-> 0]

\* PointStops without the next-item alternative of the lookahead
PointStops_EndOnly(s, e) == e = Len(s) + 1

\* the lookahead `(?=\n\d+\.\s+|\Z)` at e
PointStops(s, e) ==
    \/ e = Len(s) + 1
    \/ /\ At(s, e) = "NL"
       /\ At(s, e + 1) \in Digits
       /\ LET d == SkipWhile(s, e + 1, Digits)
          IN  At(s, d) = "." /\ At(s, d + 1) \in WS

RECURSIVE PointEnd(_, _)
\* lazy `(.*?)`: the first position at or after e where the lookahead holds
PointEnd(s, e) == IF PointStops(s, e) THEN e ELSE PointEnd(s, e + 1)

\* point_pattern at p: groups 2 and 3 and the position after the match
PointMatchAt(s, p) ==
    LET d == SkipWhile(s, p, Digits)
        w == SkipWhile(s, d + 1, WS)
        ok == {x \in (d + 2)..w : PointHead(s, x).ok}
    IN  IF At(s, p) \notin Digits \/ At(s, d) # "." \/ ok = {}
        THEN [found |-> FALSE]
        ELSE LET h == PointHead(s, SetMax(ok))
                 e == PointEnd(s, h.body)
             IN  [found |-> TRUE,
                  title |-> SubSeq(s, h.from, h.to - 1),
                  desc |-> SubSeq(s, h.body, e - 1),
                  next |-> e]

RECURSIVE FindPoints(_, _)
\* re.findall(point_pattern, points_text, re.DOTALL) from position p
FindPoints(s, p) ==
    IF p > Len(s) THEN <<>>
    ELSE LET m == PointMatchAt(s, p)
         IN  IF m.found
             THEN <<[title |-> m.title, desc |-> m.desc]>> \o FindPoints(s, m.next)
             ELSE FindPoints(s, p + 1)

\* re.sub(r'^[\*\-]\s*', '', line)
StripBullet(line) ==
    IF At(line, 1) \in {"*", "-"}
    THEN SubSeq(line, SkipWhile(line, 2, WS), Len(line))
    ELSE line

\* line.startswith('---')
StartsWithRule(line) ==
    At(line, 1) = "-" /\ At(line, 2) = "-" /\ At(line, 3) = "-"

\* the description of a point: its lines cleaned and joined with one space
CleanDescription(point_desc) ==
    LET lines == SplitLines(Strip(point_desc))
        cleaned == [k \in 1..Len(lines) |-> StripBullet(Strip(lines[k]))]
        desc_lines == SelectSeq(cleaned,
                          LAMBDA l : l # <<>> /\ ~StartsWithRule(l))
    IN  JoinSP(desc_lines)

\* the key points of a key-points block
KeyPointsOf(points_text) ==
    LET points == FindPoints(points_text, 1)
        kps == [k \in 1..Len(points) |->
                   [point |-> Strip(points[k].title),
                    description |-> CleanDescription(points[k].desc)]]
    IN  SelectSeq(kps, LAMBDA kp : kp.point # <<>> \/ kp.description # <<>>)

\* f"SL{slide_num}"
DefaultIdentifier(n) == <<"SL", ToString(n)>>

\* the slide record parse_slide_section(slide_text, slide_num) returns
parse_slide_section(text, num) ==
    LET id_match == Search([p \in 1..Len(text) |-> IdMatchAt(text, p)])
        title_match == Search([p \in 1..Len(text) |-> TitleMatchAt(text, p)])
        subtitle_match == Search([p \in 1..Len(text) |-> SubtitleMatchAt(text, p)])
        key_points_section == Search([p \in 1..Len(text) |-> KeyPointsMatchAt(text, p)])
    IN  [identifier |-> IF id_match.found THEN Strip(id_match.value)
                        ELSE DefaultIdentifier(num),
         main_title |-> IF title_match.found THEN Strip(title_match.value)
                        ELSE <<>>,
         subtitle |-> IF subtitle_match.found THEN Strip(subtitle_match.value)
                      ELSE <<>>,
         key_points |-> IF key_points_section.found
                        THEN KeyPointsOf(key_points_section.value)
                        ELSE <<>>]

----------------------------------------------------------------------------
(* enhance_slide_with_llm *)

\* symbols of a language-model response: the brackets and the comma of a JSON
\* array, "obj" a JSON object with a point and a description, "str" a JSON
\* string, "txt" prose that is not JSON
RespSyms == {"[", "]", ",", "obj", "str", "txt"}

\* the Python value a JSON value symbol is loaded as
JsonValue(c) ==
    IF c = "obj"
    THEN [point |-> <<"y">>, description |-> <<"x", "SP", "x">>]
    ELSE [jsonstr |-> <<"x">>]

\* re.search(r'\[[\s\S]*?\]', response): from the first "[" that has a "]"
\* after it to the first such "]"
ArrayMatch(resp) ==
    LET a == SkipUntil(resp, 1, {"["})
        b == SkipUntil(resp, a + 1, {"]"})
    IN  IF b > Len(resp) THEN NoMatch ELSE Match(SubSeq(resp, a, b))

\* json.loads of a bracketed text: the values are separated by commas
JsonLoads(text) ==
    LET inner == SubSeq(text, 2, Len(text) - 1)
        valid == \A k \in 1..Len(inner) :
                    IF k % 2 = 1 THEN inner[k] \in {"obj", "str"}
                    ELSE inner[k] = "," /\ k < Len(inner)
        vals == SelectSeq(inner, LAMBDA c : c # ",")
    IN  IF valid THEN [ok |-> TRUE, value |-> [k \in 1..Len(vals) |-> JsonValue(vals[k])]]
        ELSE [ok |-> FALSE, value |-> <<>>]

AttrError == [kind |-> "AttributeError", response |-> <<>>]
ModelThrows == [kind |-> "throws", response |-> <<>>]
Response(r) == [kind |-> "response", response |-> r]
NoCall == [kind |-> "none", response |-> <<>>]

\* LLMOutcomes of an instance on which `tokenizer` and `model` are always set
LLMOutcomes_AttrsSet(attrs) ==
    {ModelThrows} \cup {Response(r) : r \in UNION {[1..n -> RespSyms] : n \in 0..MaxResp}}

\* what reading self.tokenizer / self.model and calling the model can do:
\* without the attributes the first read raises AttributeError
LLMOutcomes(attrs) ==
    IF attrs
    THEN {ModelThrows} \cup {Response(r) : r \in UNION {[1..n -> RespSyms] : n \in 0..MaxResp}}
    ELSE {AttrError}

\* enhance_slide_with_llm letting a JSON error out and returning whatever list
\* was parsed
enhance_slide_NoFallback(data, o) ==
    IF o.kind # "response" THEN Returned(data.key_points)
    ELSE LET json_match == ArrayMatch(o.response)
         IN  IF ~json_match.found THEN Returned(data.key_points)
             ELSE LET enhanced_points == JsonLoads(json_match.value)
                  IN  IF enhanced_points.ok
                      THEN Returned(enhanced_points.value)
                      ELSE Raised("JSONDecodeError", "")

\* the outcome of enhance_slide_with_llm(slide_data) when the model call ends
\* as o: every exception of the try block is caught, and the original key
\* points are returned unless a non-empty list was parsed
enhance_slide_with_llm(data, o) ==
    IF o.kind # "response" THEN Returned(data.key_points)
    ELSE LET json_match == ArrayMatch(o.response)
         IN  IF ~json_match.found THEN Returned(data.key_points)
             ELSE LET enhanced_points == JsonLoads(json_match.value)
                  IN  IF enhanced_points.ok /\ Len(enhanced_points.value) > 0
                      THEN Returned(enhanced_points.value)
                      ELSE Returned(data.key_points)

----------------------------------------------------------------------------
(* Inputs *)

Digit(n) == ToString(n)

Header(n) == <<"###", "SP", "Slide", "SP", Digit(n), "NL">>
IdLine(n) == <<"Identifier:", "SP", "BT", "SL", Digit(n), "BT", "NL">>
TitleLine(t) == <<"Main", "SP", "Title:", "SP", t, "NL">>
SubtitleLine == <<"Sub", "Title:", "SP", "x", "SP", "y", "NL">>
KeyPointsLine == <<"KPD:", "NL", "NL">>
PointLines(k) == <<Digit(k), ".", "SP", "x", "NL", "+", "SP", "y", "NL">>
RuleLine == <<"-", "-", "-", "NL">>

\* the shapes of a slide block written after the input grammar: with or
\* without a title line, with or without a subtitle line, and 0..MaxPoints items
BlockShapes == [title : BOOLEAN, subtitle : BOOLEAN, points : 0..MaxPoints]

\* the n-th block of a content text; the first block is titled "x" and the
\* later ones "y"
BlockText(b, n, rule) ==
    Header(n) \o IdLine(n)
    \o (IF b.title THEN TitleLine(IF n = 1 THEN "x" ELSE "y") ELSE <<>>)
    \o (IF b.subtitle THEN SubtitleLine ELSE <<>>)
    \o KeyPointsLine
    \o Flatten([k \in 1..b.points |-> PointLines(k)])
    \o (IF rule THEN RuleLine ELSE <<>>)

\* a content text made of the slide blocks bs, with or without a horizontal
\* rule after each block
GrammarContent(bs, rule) ==
    Flatten([n \in 1..Len(bs) |-> BlockText(bs[n], n, rule)])

\* the block sequences of 1..MaxBlocks slide blocks
BlockSeqs == UNION {[1..m -> BlockShapes] : m \in 1..MaxBlocks}

MaxFrags == 3       \* fragments of a free-form content text

FreeFrags == {<<"###", "SP", "Slide", "SP", "1">>, <<"###", "SP">>,
              <<"NL">>, <<"SP">>, <<"P">>, <<"x">>}

\* the fragment sequences of content texts outside the grammar
FragSeqs == UNION {[1..m -> FreeFrags] : m \in 0..MaxFrags}

EmptySlide == [identifier |-> <<>>, main_title |-> <<>>, subtitle |-> <<>>,
               key_points |-> <<>>]

\* before create_presentation and validate_slide_content run: the SlideModel
\* is constructed with `model = None`, nothing is rendered, written or logged
NoStructure == [none |-> TRUE]
EmptyDisk == [dir |-> FALSE, file |-> "none", document |-> <<>>]

InitOutside ==
    /\ slides_model = "new"
    /\ structure = NoStructure
    /\ disk = EmptyDisk
    /\ render_calls = 0
    /\ slides = <<>>
    /\ log = <<>>

----------------------------------------------------------------------------
(* process_content_to_structure: one action per stage of the loop *)

Init ==
    /\ \/ \E bs \in BlockSeqs, rule \in BOOLEAN : content = GrammarContent(bs, rule)
       \/ \E fs \in FragSeqs : content = Flatten(fs)
    /\ use_llm_enhancement \in BOOLEAN
    /\ has_llm_attrs = FALSE       \* __init__ sets logger and slides_model only
    /\ pc = "process"
    /\ slide_sections = <<>>
    /\ i = 0
    /\ slide_text = <<>>
    /\ slide_num = 0
    /\ slide_data = EmptySlide
    /\ all_slides = <<>>
    /\ main_title = <<>>           \* None
    /\ llm = NoCall
    /\ enhance_calls = <<>>
    /\ result = NoResult
    /\ InitOutside

\* slide_sections = self.extract_slides_from_content(content_text)
ExtractSlides ==
    /\ pc = "process"
    /\ LET r == extract_slides_from_content(content)
       IN  IF r.kind = "raise"
           THEN /\ result' = r
                /\ pc' = "done"
                /\ UNCHANGED <<slide_sections, i>>
           ELSE /\ slide_sections' = r.value
                /\ i' = 1
                /\ pc' = "loop"
                /\ UNCHANGED result
    /\ UNCHANGED <<content, use_llm_enhancement, has_llm_attrs, slide_text,
                   slide_num, slide_data, all_slides, main_title, llm,
                   enhance_calls>>
    /\ UNCHANGED <<render_vars, validate_vars>>

\* ParseSection storing the main title of any slide that has one
ParseSection_AnyTitle ==
    /\ pc = "loop"
    /\ i <= Len(slide_sections)
    /\ slide_text' = slide_sections[i]
    /\ slide_num' = i
    /\ slide_data' = parse_slide_section(slide_sections[i], i)
    /\ main_title' = IF slide_data'.main_title # <<>>
                     THEN slide_data'.main_title
                     ELSE main_title
    /\ pc' = "parsed"
    /\ UNCHANGED <<content, use_llm_enhancement, has_llm_attrs, slide_sections,
                   i, all_slides, llm, enhance_calls, result>>
    /\ UNCHANGED <<render_vars, validate_vars>>

\* slide_data = self.parse_slide_section(section, i), and the main title
\* stored from the first slide
ParseSection ==
    /\ pc = "loop"
    /\ i <= Len(slide_sections)
    /\ slide_text' = slide_sections[i]
    /\ slide_num' = i
    /\ slide_data' = parse_slide_section(slide_sections[i], i)
    /\ main_title' = IF i = 1 /\ slide_data'.main_title # <<>>
                     THEN slide_data'.main_title
                     ELSE main_title
    /\ pc' = "parsed"
    /\ UNCHANGED <<content, use_llm_enhancement, has_llm_attrs, slide_sections,
                   i, all_slides, llm, enhance_calls, result>>
    /\ UNCHANGED <<render_vars, validate_vars>>

\* EnhanceSlide entered for a slide without key points too
EnhanceSlide_Always ==
    /\ pc = "parsed"
    /\ use_llm_enhancement
    /\ \E o \in LLMOutcomes(has_llm_attrs) :
          /\ llm' = o
          /\ slide_data' = [slide_data EXCEPT !.key_points =
                                enhance_slide_with_llm(slide_data, o).value]
    /\ pc' = "enhanced"
    /\ enhance_calls' = Append(enhance_calls, i)
    /\ UNCHANGED <<content, use_llm_enhancement, has_llm_attrs, slide_sections,
                   i, slide_text, slide_num, all_slides, main_title, result>>
    /\ UNCHANGED <<render_vars, validate_vars>>

\* slide_data['key_points'] = self.enhance_slide_with_llm(slide_data); an
\* exception leaving the enhancer would leave process_content_to_structure too
EnhanceSlide ==
    /\ pc = "parsed"
    /\ use_llm_enhancement /\ slide_data.key_points # <<>>
    /\ \E o \in LLMOutcomes(has_llm_attrs) :
          LET r == enhance_slide_with_llm(slide_data, o)
          IN  /\ llm' = o
              /\ IF r.kind = "return"
                 THEN /\ slide_data' = [slide_data EXCEPT !.key_points = r.value]
                      /\ pc' = "enhanced"
                      /\ UNCHANGED result
                 ELSE /\ result' = r
                      /\ pc' = "done"
                      /\ UNCHANGED slide_data
    /\ enhance_calls' = Append(enhance_calls, i)
    /\ UNCHANGED <<content, use_llm_enhancement, has_llm_attrs, slide_sections,
                   i, slide_text, slide_num, all_slides, main_title>>
    /\ UNCHANGED <<render_vars, validate_vars>>

\* AddSlide adding every slide
AddSlide_All ==
    /\ \/ pc = "enhanced"
       \/ pc = "parsed" /\ ~(use_llm_enhancement /\ slide_data.key_points # <<>>)
    /\ all_slides' = Append(all_slides, slide_data)
    /\ i' = i + 1
    /\ pc' = "loop"
    /\ UNCHANGED <<content, use_llm_enhancement, has_llm_attrs, slide_sections,
                   slide_text, slide_num, slide_data, main_title, llm,
                   enhance_calls, result>>
    /\ UNCHANGED <<render_vars, validate_vars>>

\* only slides with content are added
AddSlide ==
    /\ \/ pc = "enhanced"
       \/ pc = "parsed" /\ ~(use_llm_enhancement /\ slide_data.key_points # <<>>)
    /\ all_slides' = IF slide_data.key_points # <<>>
                     THEN Append(all_slides, slide_data)
                     ELSE all_slides
    /\ i' = i + 1
    /\ pc' = "loop"
    /\ UNCHANGED <<content, use_llm_enhancement, has_llm_attrs, slide_sections,
                   slide_text, slide_num, slide_data, main_title, llm,
                   enhance_calls, result>>
    /\ UNCHANGED <<render_vars, validate_vars>>

\* the structure returned, or ContentParsingError when no slide is left
Structure ==
    [main_title |-> IF main_title = <<>> THEN <<"Presentation">> ELSE main_title,
     slides |-> all_slides]

\* FinishStructure without the check that a slide is left
FinishStructure_NoCheck ==
    /\ pc = "loop"
    /\ i > Len(slide_sections)
    /\ result' = Returned(Structure)
    /\ pc' = "done"
    /\ UNCHANGED <<content, use_llm_enhancement, has_llm_attrs, slide_sections,
                   i, slide_text, slide_num, slide_data, all_slides, main_title,
                   llm, enhance_calls>>
    /\ UNCHANGED <<render_vars, validate_vars>>

FinishStructure ==
    /\ pc = "loop"
    /\ i > Len(slide_sections)
    /\ result' = IF all_slides = <<>>
                 THEN Raised("ContentParsingError", "No valid slides generated")
                 ELSE Returned(Structure)
    /\ pc' = "done"
    /\ UNCHANGED <<content, use_llm_enhancement, has_llm_attrs, slide_sections,
                   i, slide_text, slide_num, slide_data, all_slides, main_title,
                   llm, enhance_calls>>
    /\ UNCHANGED <<render_vars, validate_vars>>

Next ==
    \/ ExtractSlides
    \/ ParseSection
    \/ EnhanceSlide
    \/ AddSlide
    \/ FinishStructure

Spec == Init /\ [][Next]_vars

\* process_content_to_structure(content_text, use_llm_enhancement=False) as a
\* function of the content: the sections are parsed in order, the slides with
\* key points are kept, the title is that of the first section
process_content_to_structure(c) ==
    LET r == extract_slides_from_content(c)
    IN  IF r.kind = "raise" THEN r
        ELSE LET parsed == [k \in 1..Len(r.value) |->
                               parse_slide_section(r.value[k], k)]
                 kept == SelectSeq(parsed, LAMBDA d : d.key_points # <<>>)
                 title == parsed[1].main_title
             IN  IF kept = <<>>
                 THEN Raised("ContentParsingError", "No valid slides generated")
                 ELSE Returned([main_title |-> IF title = <<>>
                                               THEN <<"Presentation">>
                                               ELSE title,
                                slides |-> kept])

----------------------------------------------------------------------------
(* Direct calls of parse_slide_section and enhance_slide_with_llm *)

\* field lines of a section
FieldLines ==
    {IdLine(1),
     <<"ID:", "SP", "x", "NL">>,
     <<"Identifier:", "NL">>,
     <<"x", "ID:", "SP", "y", "NL">>,
     TitleLine("x"),
     <<"Main", "SP", "Title:", "NL">>,
     SubtitleLine,
     <<"Sub", "Title:", "NL">>}

FieldSeqs == UNION {[1..m -> FieldLines] : m \in 0..MaxFieldLines}

\* lines of a key-points block: numbered items, description lines with each
\* bullet marker, a horizontal rule, an indentation, an empty line
KPLines ==
    {<<"1", ".", "SP", "x", "NL">>,
     <<"2", ".", "SP", "y", "NL">>,
     <<"+", "SP", "y", "NL">>,
     <<"*", "SP", "x", "NL">>,
     <<"-", "SP", "y", "NL">>,
     RuleLine,
     <<"SP", "SP">>,
     <<"NL">>}

KPSeqs == UNION {[1..m -> KPLines] : m \in 0..MaxKPLines}

InitCall ==
    /\ content = <<>>
    /\ use_llm_enhancement = FALSE
    /\ slide_sections = <<>>
    /\ i = 0
    /\ all_slides = <<>>
    /\ main_title = <<>>
    /\ llm = NoCall
    /\ enhance_calls = <<>>
    /\ result = NoResult
    /\ InitOutside

\* parse_slide_section called on a section made of field lines, with or
\* without a key-points block of one item
InitParse ==
    /\ InitCall
    /\ has_llm_attrs = FALSE
    /\ pc = "call_parse"
    /\ \E fs \in FieldSeqs, kp \in BOOLEAN :
          slide_text = Flatten(fs) \o (IF kp THEN KeyPointsLine \o PointLines(1) ELSE <<>>)
    /\ slide_num \in 1..MaxNum
    /\ slide_data = EmptySlide

\* parse_slide_section called on a key-points block
InitPoints ==
    /\ InitCall
    /\ has_llm_attrs = FALSE
    /\ pc = "call_parse"
    /\ \E ks \in KPSeqs : slide_text = <<"KPD:", "NL">> \o Flatten(ks)
    /\ slide_num = 1
    /\ slide_data = EmptySlide

ParseCall ==
    /\ pc = "call_parse"
    /\ slide_data' = parse_slide_section(slide_text, slide_num)
    /\ result' = Returned(slide_data')
    /\ pc' = "parse_returned"
    /\ UNCHANGED <<content, use_llm_enhancement, has_llm_attrs, slide_sections,
                   i, slide_text, slide_num, all_slides, main_title, llm,
                   enhance_calls>>
    /\ UNCHANGED <<render_vars, validate_vars>>

SpecParse == InitParse /\ [][ParseCall]_vars

SpecPoints == InitPoints /\ [][ParseCall]_vars

\* the indentation of the shipped sample input, whose every line starts with
\* spaces
Indent == <<"SP", "SP">>

\* lines of a key-points block written as in PPT_INPUT_CONTENT: indented
\* numbered items, indented `+` and `*` description lines, empty lines
IndentedKPLines ==
    {Indent \o <<"1", ".", "SP", "x", "NL">>,
     Indent \o <<"2", ".", "SP", "y", "NL">>,
     Indent \o <<"+", "SP", "y", "NL">>,
     Indent \o <<"*", "SP", "x", "NL">>,
     <<"NL">>}

IndentedKPSeqs == UNION {[1..m -> IndentedKPLines] : m \in 0..MaxKPLines}

\* parse_slide_section called on an indented key-points block
InitIndented ==
    /\ InitCall
    /\ has_llm_attrs = FALSE
    /\ pc = "call_parse"
    /\ \E ks \in IndentedKPSeqs :
          slide_text = Indent \o <<"KPD:", "NL">> \o Flatten(ks)
    /\ slide_num = 1
    /\ slide_data = EmptySlide

SpecIndented == InitIndented /\ [][ParseCall]_vars

MaxStars == 2       \* emphasis markers on each side of `Slide <n>` in a header

RECURSIVE Stars(_)
Stars(n) == IF n = 0 THEN <<>> ELSE <<"*">> \o Stars(n - 1)

\* the text c with its slide headers written `### **Slide <n>**`, n markers
\* on each side
Emphasized(c, n) ==
    Flatten([k \in 1..Len(c) |->
                IF c[k] = "Slide" THEN Stars(n) \o <<"Slide">>
                ELSE IF k > 2 /\ c[k - 2] = "Slide" THEN <<c[k]>> \o Stars(n)
                ELSE <<c[k]>>])

\* extract_slides_from_content called on slide blocks written after the
\* grammar, the headers plain or with emphasis markup
InitExtract ==
    /\ \E bs \in BlockSeqs, rule \in BOOLEAN, n \in 0..MaxStars :
          content = Emphasized(GrammarContent(bs, rule), n)
    /\ use_llm_enhancement = FALSE
    /\ has_llm_attrs = FALSE
    /\ pc = "call_extract"
    /\ slide_sections = <<>>
    /\ i = 0
    /\ slide_text = <<>>
    /\ slide_num = 0
    /\ slide_data = EmptySlide
    /\ all_slides = <<>>
    /\ main_title = <<>>
    /\ llm = NoCall
    /\ enhance_calls = <<>>
    /\ result = NoResult
    /\ InitOutside

ExtractCall ==
    /\ pc = "call_extract"
    /\ result' = extract_slides_from_content(content)
    /\ slide_sections' = IF result'.kind = "return" THEN result'.value ELSE <<>>
    /\ pc' = "extract_returned"
    /\ UNCHANGED <<content, use_llm_enhancement, has_llm_attrs, i, slide_text,
                   slide_num, slide_data, all_slides, main_title, llm,
                   enhance_calls>>
    /\ UNCHANGED <<render_vars, validate_vars>>

SpecExtract == InitExtract /\ [][ExtractCall]_vars

\* key points of a parsed slide
KeyPoints ==
    {[point |-> <<"x">>, description |-> <<"y">>],
     [point |-> <<"y">>, description |-> <<>>]}

\* enhance_slide_with_llm called on a slide, the instance having the
\* attributes `tokenizer` and `model` or not
InitEnhance ==
    /\ InitCall
    /\ has_llm_attrs \in BOOLEAN
    /\ pc = "call_enhance"
    /\ slide_text = <<>>
    /\ slide_num = 0
    /\ \E kps \in UNION {[1..m -> KeyPoints] : m \in 0..MaxKeyPoints} :
          slide_data = [EmptySlide EXCEPT !.subtitle = <<"x">>, !.key_points = kps]

EnhanceCall ==
    /\ pc = "call_enhance"
    /\ \E o \in LLMOutcomes(has_llm_attrs) :
          /\ llm' = o
          /\ result' = enhance_slide_with_llm(slide_data, o)
    /\ pc' = "enhance_returned"
    /\ UNCHANGED <<content, use_llm_enhancement, has_llm_attrs, slide_sections,
                   i, slide_text, slide_num, slide_data, all_slides, main_title,
                   enhance_calls>>
    /\ UNCHANGED <<render_vars, validate_vars>>

SpecEnhance == InitEnhance /\ [][EnhanceCall]_vars

----------------------------------------------------------------------------
(* create_presentation *)

MaxEntries == 3     \* entries of a structure handed to create_presentation

\* dict.get(key, default)
Get(d, key, default) == IF key \in DOMAIN d THEN d[key] ELSE default

\* a key point that is a dict, as opposed to a JSON string
IsDict(v) == "jsonstr" \notin DOMAIN v

\* the paragraphs _create_content_slide adds for the key point of index idx
PointParagraphs(point_data, idx) ==
    LET point == Get(point_data, "point", <<>>)
        desc == Get(point_data, "description", <<>>)
    IN  (IF idx > 0 THEN <<[level |-> "spacer", text |-> <<>>]>> ELSE <<>>)
        \o <<[level |-> "point", text |-> <<"BULLET", "SP">> \o point]>>
        \o (IF desc # <<>> /\ desc # point
            THEN <<[level |-> "description", text |-> desc]>>
            ELSE <<>>)

\* the slide _create_title_slide adds
TitleSlide(title) ==
    [layout |-> "title", title |-> title,
     subtitle |-> <<"Academic Presentation", "NL", "DATE">>]

\* the slide _create_content_slide adds
ContentSlide(data, title) ==
    LET kps == Get(data, "key_points", <<>>)
    IN  [layout |-> "blank",
         identifier |-> Get(data, "identifier", <<>>),
         title |-> title,
         subtitle |-> Get(data, "subtitle", <<>>),
         paragraphs |-> Flatten([k \in 1..Len(kps) |-> PointParagraphs(kps[k], k - 1)])]

\* point_data.get raises AttributeError on a key point that is not a dict
Renderable(data) ==
    \A k \in 1..Len(Get(data, "key_points", <<>>)) : IsDict(data.key_points[k])

\* RenderDocument adding each content slide in front of the earlier ones
RenderDocument_Reversed(st) ==
    LET title == Get(st, "main_title", <<"Presentation">>)
        entries == Get(st, "slides", <<>>)
        n == Len(entries)
    IN  <<TitleSlide(title)>>
        \o [k \in 1..n |-> ContentSlide(entries[n + 1 - k], title)]

\* the slides of prs when it is saved: the title slide, then one content
\* slide per entry of structure["slides"]
RenderDocument(st) ==
    LET title == Get(st, "main_title", <<"Presentation">>)
        entries == Get(st, "slides", <<>>)
    IN  <<TitleSlide(title)>>
        \o [k \in 1..Len(entries) |-> ContentSlide(entries[k], title)]

OutputFilename == "presentation.pptx"

\* what the file system does to mkdir and to prs.save: both succeed, mkdir
\* raises, save raises before the file exists, save raises after it has
\* created the file
RenderEnvs == {"ok", "mkdir_raises", "save_raises", "save_raises_midway"}

RenderFailed(d) ==
    [result |-> Raised("SlideGenerationError", "Failed to create presentation"),
     disk |-> d]

\* the outcome of create_presentation(structure, output_filename) on the
\* disk d: every exception of the try block becomes SlideGenerationError,
\* also the KeyError of structure['slides'] in the message logged after save
create_presentation(st, env, d) ==
    IF env = "mkdir_raises" THEN RenderFailed(d)
    ELSE IF \E k \in 1..Len(Get(st, "slides", <<>>)) : ~Renderable(st.slides[k])
    THEN RenderFailed([d EXCEPT !.dir = TRUE])
    ELSE IF env = "save_raises" THEN RenderFailed([d EXCEPT !.dir = TRUE])
    ELSE IF env = "save_raises_midway"
    THEN RenderFailed([d EXCEPT !.dir = TRUE, !.file = "partial"])
    ELSE IF "slides" \notin DOMAIN st
    THEN RenderFailed([d EXCEPT !.dir = TRUE, !.file = "saved",
                                  !.document = RenderDocument(st)])
    ELSE [result |-> Returned(OutputFilename),
          disk |-> [d EXCEPT !.dir = TRUE, !.file = "saved",
                             !.document = RenderDocument(st)]]

\* slide entries: a slide of one point, a slide without subtitle whose
\* descriptions repeat the point or are empty, a slide whose key points are
\* JSON strings
RenderEntries ==
    {[identifier |-> <<"SL", "1">>, main_title |-> <<"x">>,
      subtitle |-> <<"x", "SP", "y">>,
      key_points |-> <<[point |-> <<"x">>, description |-> <<"y">>]>>],
     [identifier |-> <<"SL", "2">>, main_title |-> <<>>, subtitle |-> <<>>,
      key_points |-> <<[point |-> <<"y">>, description |-> <<"y">>],
                       [point |-> <<"x">>, description |-> <<>>]>>],
     [identifier |-> <<"SL", "3">>, main_title |-> <<>>, subtitle |-> <<"y">>,
      key_points |-> <<[jsonstr |-> <<"x">>]>>]}

EntrySeqs == UNION {[1..m -> RenderEntries] : m \in 0..MaxEntries}

\* structures with and without the keys create_presentation reads with .get
RenderStructures ==
    {[main_title |-> <<"x">>, slides |-> es] : es \in EntrySeqs}
    \cup {[slides |-> es] : es \in EntrySeqs}
    \cup {[main_title |-> <<"x">>]}

InitRender ==
    /\ InitCall
    /\ has_llm_attrs = FALSE
    /\ pc = "call_render"
    /\ slide_text = <<>>
    /\ slide_num = 0
    /\ slide_data = EmptySlide

\* create_presentation called on a structure
RenderCall ==
    /\ pc = "call_render"
    /\ \E st \in RenderStructures, env \in RenderEnvs :
          LET r == create_presentation(st, env, disk)
          IN  /\ structure' = st
              /\ result' = r.result
              /\ disk' = r.disk
    /\ render_calls' = render_calls + 1
    /\ pc' = "render_returned"
    /\ UNCHANGED <<content, use_llm_enhancement, has_llm_attrs, slide_sections,
                   i, slide_text, slide_num, slide_data, all_slides, main_title,
                   llm, enhance_calls, slides_model, validate_vars>>

SpecRender == InitRender /\ [][RenderCall]_vars

----------------------------------------------------------------------------
(* generate_ppt, on a generator built around a SlideModel *)

\* content of a request: slide blocks written after the grammar, or a text
\* without any slide
GenerateContents ==
    {GrammarContent(bs, FALSE) : bs \in BlockSeqs}
    \cup {<<>>, <<"SP", "NL">>, <<"x">>}

InitGenerate ==
    /\ content \in GenerateContents
    /\ use_llm_enhancement \in BOOLEAN
    /\ has_llm_attrs = FALSE
    /\ pc = "new"
    /\ slide_sections = <<>>
    /\ i = 0
    /\ slide_text = <<>>
    /\ slide_num = 0
    /\ slide_data = EmptySlide
    /\ all_slides = <<>>
    /\ main_title = <<>>
    /\ llm = NoCall
    /\ enhance_calls = <<>>
    /\ result = NoResult
    /\ InitOutside

\* SlideModel.load_model(): __init__ never sets self.model_id, so reading it
\* raises AttributeError, which the handler logs and swallows; self.model
\* stays None
LoadModel ==
    /\ pc = "new"
    /\ slides_model = "new"
    /\ slides_model' = "load_failed"
    /\ UNCHANGED <<content, use_llm_enhancement, has_llm_attrs, pc,
                   slide_sections, i, slide_text, slide_num, slide_data,
                   all_slides, main_title, llm, enhance_calls, result,
                   structure, disk, render_calls, validate_vars>>

\* generate_ppt(content_text, output_filename, use_llm_enhancement) enters
\* process_content_to_structure; the SlideModel is not consulted
GeneratePpt ==
    /\ pc = "new"
    /\ pc' = "process"
    /\ UNCHANGED <<content, use_llm_enhancement, has_llm_attrs, slide_sections,
                   i, slide_text, slide_num, slide_data, all_slides, main_title,
                   llm, enhance_calls, result, render_vars, validate_vars>>

\* PropagateError rendering an empty structure before the error is raised again
PropagateError_RenderAnyway ==
    /\ pc = "done"
    /\ result.kind = "raise"
    /\ \E env \in RenderEnvs :
          LET st == [main_title |-> <<"Presentation">>, slides |-> <<>>]
          IN  /\ structure' = st
              /\ disk' = create_presentation(st, env, disk).disk
    /\ render_calls' = render_calls + 1
    /\ pc' = "generated"
    /\ UNCHANGED <<content, use_llm_enhancement, has_llm_attrs, slide_sections,
                   i, slide_text, slide_num, slide_data, all_slides, main_title,
                   llm, enhance_calls, result, slides_model, validate_vars>>

\* an exception of process_content_to_structure is logged and raised again
PropagateError ==
    /\ pc = "done"
    /\ result.kind = "raise"
    /\ pc' = "generated"
    /\ UNCHANGED <<content, use_llm_enhancement, has_llm_attrs, slide_sections,
                   i, slide_text, slide_num, slide_data, all_slides, main_title,
                   llm, enhance_calls, result, render_vars, validate_vars>>

\* return self.create_presentation(structure, output_filename); its
\* SlideGenerationError is logged and raised again
RenderStructure ==
    /\ pc = "done"
    /\ result.kind = "return"
    /\ \E env \in RenderEnvs :
          LET r == create_presentation(result.value, env, disk)
          IN  /\ result' = r.result
              /\ disk' = r.disk
    /\ structure' = result.value
    /\ render_calls' = render_calls + 1
    /\ pc' = "generated"
    /\ UNCHANGED <<content, use_llm_enhancement, has_llm_attrs, slide_sections,
                   i, slide_text, slide_num, slide_data, all_slides, main_title,
                   llm, enhance_calls, slides_model, validate_vars>>

NextGenerate ==
    \/ LoadModel
    \/ GeneratePpt
    \/ Next
    \/ PropagateError
    \/ RenderStructure

SpecGenerate == InitGenerate /\ [][NextGenerate]_vars

\* SlideModel.get_model() on a SlideModel in state m: self.model is None until
\* a load has assigned it
get_model(m) ==
    IF m \in {"new", "load_failed"}
    THEN Raised("ModelLoadError", "Model not loaded")
    ELSE Returned("model")

\* the program asks the SlideModel for its model, before or after load_model
GetModel ==
    /\ pc = "new"
    /\ result' = get_model(slides_model)
    /\ pc' = "model_read"
    /\ UNCHANGED <<content, use_llm_enhancement, has_llm_attrs, slide_sections,
                   i, slide_text, slide_num, slide_data, all_slides, main_title,
                   llm, enhance_calls, render_vars, validate_vars>>

NextModel ==
    \/ GetModel
    \/ NextGenerate

\* a program that builds a SlideModel, may load it and read its model, and
\* generates a presentation
SpecModel == InitGenerate /\ [][NextModel]_vars

----------------------------------------------------------------------------
(* validate_slide_content *)

\* `###\s*\*?Slide\s+\d+\*?\s*\n` at p, without re.IGNORECASE: the position
\* after the match, 0 if none
ValidatorHeaderEnd(s, p) ==
    IF At(s, p) # "###" THEN 0
    ELSE LET a == SkipWhile(s, p + 1, WS)
             b == IF At(s, a) = "*" THEN a + 1 ELSE a
         IN  IF At(s, b) # "Slide" THEN 0
             ELSE LET c == SkipWhile(s, b + 1, WS)
                  IN  IF c = b + 1 \/ At(s, c) \notin Digits THEN 0
                      ELSE LET d == SkipWhile(s, c, Digits)
                               e == IF At(s, d) = "*" THEN d + 1 ELSE d
                               f == SkipWhile(s, e, WS)
                               n == LastNL(s, e, f)
                           IN  IF n = 0 THEN 0 ELSE n + 1

RECURSIVE SplitSlides(_, _, _)
\* re.split of the content at the slide headers: the pieces between matches
SplitSlides(s, start, p) ==
    IF p > Len(s) THEN <<SubSeq(s, start, Len(s))>>
    ELSE LET h == ValidatorHeaderEnd(s, p)
         IN  IF h # 0
             THEN <<SubSeq(s, start, p - 1)>> \o SplitSlides(s, h, h)
             ELSE SplitSlides(s, start, p + 1)

\* [s.strip() for s in slides if s.strip()]
ValidatorSlides(s) ==
    LET keep == SelectSeq(SplitSlides(s, 1, 1), LAMBDA t : Strip(t) # <<>>)
    IN  [k \in 1..Len(keep) |-> Strip(keep[k])]

\* `\s*.+` at e: whitespace, then a character that is not a newline
RestMatches(s, e) ==
    \E q \in e..Len(s) : s[q] # "NL" /\ \A j \in e..(q - 1) : s[j] \in WS

\* re.search(r"Identifier:\s*`[^`]+`", slide)
IdentifierFound(s) ==
    \E p \in 1..Len(s) :
        /\ s[p] = "Identifier:"
        /\ LET a == SkipWhile(s, p + 1, WS)
           IN  /\ At(s, a) = "BT"
               /\ At(s, a + 1) \notin {"BT", "EOF"}
               /\ SkipUntil(s, a + 1, {"BT"}) <= Len(s)

\* re.search(r"Main Title:\s*.+", slide)
MainTitleFound(s) ==
    \E p \in 1..Len(s) :
        /\ s[p] = "Main" /\ At(s, p + 1) = "SP" /\ At(s, p + 2) = "Title:"
        /\ RestMatches(s, p + 3)

\* re.search(r"Subtitle:\s*.+", slide)
SubtitleFound(s) ==
    \E p \in 1..Len(s) :
        s[p] = "Sub" /\ At(s, p + 1) = "Title:" /\ RestMatches(s, p + 2)

\* re.search(r"Key Points and Description:", slide)
KeyPointsHeaderFound(s) == \E p \in 1..Len(s) : s[p] = "KPD:"

\* `\n\d+\.\s+.+` at p: the position after the match, 0 if none
NumberedPointEnd(s, p) ==
    LET d == SkipWhile(s, p + 1, Digits)
        w == SkipWhile(s, d + 1, WS)
        sp == {q \in (d + 2)..Len(s) : s[q] = "SP" /\ q < w}
    IN  IF At(s, p) # "NL" \/ d = p + 1 \/ At(s, d) # "." \/ w = d + 1 THEN 0
        ELSE IF w <= Len(s) THEN SkipUntil(s, w, {"NL"})
        ELSE IF sp # {} THEN SkipUntil(s, SetMax(sp), {"NL"})
        ELSE 0

RECURSIVE NumberedPoints(_, _)
\* re.findall(r"\n\d+\.\s+.+", slide) from position p
NumberedPoints(s, p) ==
    IF p > Len(s) THEN <<>>
    ELSE LET e == NumberedPointEnd(s, p)
         IN  IF e # 0 THEN <<SubSeq(s, p, e - 1)>> \o NumberedPoints(s, e)
             ELSE NumberedPoints(s, p + 1)

\* re.search(rf"{re.escape(point)}(\n\s*\* .+)+", slide, re.MULTILINE)
BulletBlockFound(s, point) ==
    \E a \in 1..Len(s) :
        LET e == a + Len(point)
            b == SkipWhile(s, e + 1, WS)
        IN  /\ e <= Len(s) + 1
            /\ SubSeq(s, a, e - 1) = point
            /\ At(s, e) = "NL"
            /\ At(s, b) = "*" /\ At(s, b + 1) = "SP"
            /\ At(s, b + 2) \notin {"NL", "EOF"}

Logged(level, k, about, n) ==
    [level |-> level, slide |-> k, about |-> about, point |-> n]

\* what one iteration of the loop logs for the slide of number k
SlideLog(slide, k) ==
    LET points == NumberedPoints(slide, 1)
        unbulleted == SelectSeq([n \in 1..Len(points) |-> n],
                          LAMBDA n : ~BulletBlockFound(slide, points[n]))
    IN  <<Logged("info", k, "Validating", 0)>>
        \o (IF IdentifierFound(slide) THEN <<>>
            ELSE <<Logged("error", k, "Identifier", 0)>>)
        \o (IF MainTitleFound(slide) THEN <<>>
            ELSE <<Logged("error", k, "Main Title", 0)>>)
        \o (IF SubtitleFound(slide) THEN <<>>
            ELSE <<Logged("error", k, "Subtitle", 0)>>)
        \o (IF ~KeyPointsHeaderFound(slide)
            THEN <<Logged("error", k, "Key Points and Description", 0)>>
            ELSE IF points = <<>>
            THEN <<Logged("error", k, "numbered key points", 0)>>
            ELSE [j \in 1..Len(unbulleted) |->
                     Logged("warning", k, "bullet points", unbulleted[j])])

HasError(l) == \E j \in 1..Len(l) : l[j].level = "error"

RECURSIVE LoopLog_StopAtError(_, _)
\* LoopLog leaving the loop after the first slide with an error
LoopLog_StopAtError(ss, k) ==
    IF k > Len(ss) THEN <<>>
    ELSE IF HasError(SlideLog(ss[k], k)) THEN SlideLog(ss[k], k)
    ELSE SlideLog(ss[k], k) \o LoopLog_StopAtError(ss, k + 1)

RECURSIVE LoopLog(_, _)
\* the records of the loop over the slides from number k on
LoopLog(ss, k) ==
    IF k > Len(ss) THEN <<>>
    ELSE SlideLog(ss[k], k) \o LoopLog(ss, k + 1)

\* validate_slide_content(content, logger): the slides it split, what it
\* logged and what it returned. `valid` is assigned and never read, the
\* function ends without a return statement, and nothing in the try block
\* raises ValueError
validate_slide_content(c) ==
    LET ss == ValidatorSlides(c)
    IN  IF ss = <<>>
        THEN [slides |-> ss,
              log |-> <<Logged("error", 0, "No slides found", 0)>>,
              result |-> Returned("False")]
        ELSE [slides |-> ss,
              log |-> LoopLog(ss, 1)
                      \o <<Logged("info", 0, "All slides match", 0)>>,
              result |-> Returned("None")]

\* a content text with its slide headers written in lower case
LowerHeaders(c) == [k \in 1..Len(c) |-> IF c[k] = "Slide" THEN "slide" ELSE c[k]]

\* contents handed to the validator: slide blocks after the grammar, with
\* headers in either case, and free-form texts
ValidateContents ==
    {GrammarContent(bs, rule) : bs \in BlockSeqs, rule \in BOOLEAN}
    \cup {LowerHeaders(GrammarContent(bs, FALSE)) : bs \in BlockSeqs}
    \cup {Flatten(fs) : fs \in FragSeqs}

InitValidate ==
    /\ content \in ValidateContents
    /\ use_llm_enhancement = FALSE
    /\ has_llm_attrs = FALSE
    /\ pc = "call_validate"
    /\ slide_sections = <<>>
    /\ i = 0
    /\ slide_text = <<>>
    /\ slide_num = 0
    /\ slide_data = EmptySlide
    /\ all_slides = <<>>
    /\ main_title = <<>>
    /\ llm = NoCall
    /\ enhance_calls = <<>>
    /\ result = NoResult
    /\ InitOutside

ValidateCall ==
    /\ pc = "call_validate"
    /\ LET v == validate_slide_content(content)
       IN  /\ slides' = v.slides
           /\ log' = v.log
           /\ result' = v.result
    /\ pc' = "validated"
    /\ UNCHANGED <<content, use_llm_enhancement, has_llm_attrs, slide_sections,
                   i, slide_text, slide_num, slide_data, all_slides, main_title,
                   llm, enhance_calls, render_vars>>

SpecValidate == InitValidate /\ [][ValidateCall]_vars

----------------------------------------------------------------------------
(* __main__: the content handed to the pipeline is validated first *)

MaxBlockLines == 4  \* lines after the field lines of a one-block content

\* lines of a slide block after its field lines: the key-points header alone
\* on its line or followed by text, a numbered item, description lines
BlockLines ==
    {KeyPointsLine,
     <<"KPD:", "SP", "x", "NL">>,
     <<"1", ".", "SP", "x", "NL">>,
     <<"+", "SP", "y", "NL">>,
     <<"*", "SP", "x", "NL">>}

BlockLineSeqs == UNION {[1..m -> BlockLines] : m \in 0..MaxBlockLines}

\* contents of a program run: slide blocks after the grammar, and one block
\* with every field line followed by any of the block lines
MainContents ==
    {GrammarContent(bs, rule) : bs \in BlockSeqs, rule \in BOOLEAN}
    \cup {Header(1) \o IdLine(1) \o TitleLine("x") \o SubtitleLine \o Flatten(ls) :
             ls \in BlockLineSeqs}

\* validate_slide_content called on the content of a program run
InitMain ==
    /\ content \in MainContents
    /\ use_llm_enhancement = FALSE
    /\ has_llm_attrs = FALSE
    /\ pc = "call_validate"
    /\ slide_sections = <<>>
    /\ i = 0
    /\ slide_text = <<>>
    /\ slide_num = 0
    /\ slide_data = EmptySlide
    /\ all_slides = <<>>
    /\ main_title = <<>>
    /\ llm = NoCall
    /\ enhance_calls = <<>>
    /\ result = NoResult
    /\ InitOutside

SpecMain == InitMain /\ [][ValidateCall]_vars

----------------------------------------------------------------------------
(* Vocabulary of the properties: the input grammar read line by line *)

RECURSIVE JoinNL(_)
\* the lines ls written one per line
JoinNL(ls) ==
    IF ls = <<>> THEN <<>>
    ELSE IF Len(ls) = 1 THEN ls[1]
    ELSE ls[1] \o <<"NL">> \o JoinNL(Tail(ls))

\* a line reading `### Slide <n>`
IsSlideHeader(l) ==
    /\ Len(l) = 5
    /\ l[1] = "###" /\ l[2] = "SP" /\ l[3] = "Slide" /\ l[4] = "SP"
    /\ l[5] \in Digits

\* the positions, among the lines of c, of the header lines that a newline ends
HeaderLines(c) ==
    LET ls == SplitLines(c)
    IN  {k \in 1..(Len(ls) - 1) : IsSlideHeader(ls[k])}

\* c is made of slide blocks: it starts with a header line, and "###" occurs
\* in header lines only
WellFormedContent(c) ==
    LET ls == SplitLines(c)
    IN  /\ 1 \in HeaderLines(c)
        /\ \A k \in 1..Len(ls) :
              (\E j \in 1..Len(ls[k]) : ls[k][j] = "###") => k \in HeaderLines(c)

\* the body of the j-th block of c: the lines after its header line up to the
\* next header line
BlockBody(c, j) ==
    LET ls == SplitLines(c)
        hs == HeaderLines(c)
        h == CHOOSE k \in hs : Cardinality({m \in hs : m < k}) = j - 1
        later == {m \in hs : m > h}
        last == IF later = {} THEN Len(ls) ELSE SetMin(later) - 1
    IN  JoinNL(SubSeq(ls, h + 1, last))

\* the lines of a text whose every line a newline ends
LinesOf(t) == LET ls == SplitLines(t) IN SubSeq(ls, 1, Len(ls) - 1)

\* a line reading `<n>. <title>`
IsItemLine(l) == Len(l) >= 4 /\ l[1] \in Digits /\ l[2] = "." /\ l[3] = "SP"
ItemTitle(l) == SubSeq(l, 4, Len(l))

BulletMarkers == {"+", "*", "-"}

\* a description line `<marker> <text>`, the marker being one of the grammar's
IsBulletLine(l) == Len(l) >= 3 /\ l[1] \in BulletMarkers /\ l[2] = "SP"
BulletText(l) == SubSeq(l, 3, Len(l))

\* t is a key-points header followed by one numbered item and its description
\* lines
OneItemWithBullets(t) ==
    LET ls == LinesOf(t)
    IN  /\ At(t, Len(t)) = "NL"
        /\ Len(ls) >= 3
        /\ ls[1] = <<"KPD:">>
        /\ IsItemLine(ls[2])
        /\ \A k \in 3..Len(ls) : IsBulletLine(ls[k])

\* a line without its indentation
Unindent(l) == SubSeq(l, SkipWhile(l, 1, {"SP"}), Len(l))

\* t has a line starting with a numbered item `<n>.`
HasItemLine(t) ==
    \E k \in 1..Len(SplitLines(t)) :
        LET l == Unindent(SplitLines(t)[k])
        IN  At(l, 1) \in Digits /\ At(l, 2) = "."

\* t has a `Main Title:` or `Title:` field line
HasTitleLine(t) ==
    \E k \in 1..Len(SplitLines(t)) :
        LET l == Unindent(SplitLines(t)[k])
        IN  \/ At(l, 1) = "Title:"
            \/ At(l, 1) = "Main" /\ At(l, 2) = "SP" /\ At(l, 3) = "Title:"

\* t has a `Subtitle:` field line
HasSubtitleLine(t) ==
    \E k \in 1..Len(SplitLines(t)) :
        LET l == Unindent(SplitLines(t)[k])
        IN  At(l, 1) = "Sub" /\ At(l, 2) = "Title:"

\* t has an `Identifier:` or `ID:` field line
IsIdLine(l) == At(Unindent(l), 1) \in {"Identifier:", "ID:"}
HasIdField(t) == \E k \in 1..Len(SplitLines(t)) : IsIdLine(SplitLines(t)[k])

\* the token of an identifier field line: the text after the label, without
\* its backticks
IdToken(l) ==
    LET u == Unindent(l)
        a == SkipWhile(u, 2, {"SP"})
        b == IF At(u, a) = "BT" THEN a + 1 ELSE a
    IN  Strip(SubSeq(u, b, SkipUntil(u, b, {"BT"}) - 1))

\* the token of the first identifier field of t
FirstIdToken(t) ==
    LET ls == SplitLines(t)
        k == SetMin({j \in 1..Len(ls) : IsIdLine(ls[j])})
    IN  IdToken(ls[k])

\* the first `[` ... `]` of a response
HasBrackets(r) ==
    \E a \in 1..Len(r) : r[a] = "[" /\ \E b \in (a + 1)..Len(r) : r[b] = "]"
Bracketed(r) ==
    LET a == SkipUntil(r, 1, {"["})
    IN  SubSeq(r, a, SkipUntil(r, a, {"]"}))

\* the ways the enhancement fails: the model call throws, the response has
\* no bracketed array, the array is not JSON, or it is the empty list
EnhancementFails ==
    \/ llm.kind \in {"AttributeError", "throws"}
    \/ /\ llm.kind = "response"
       /\ \/ ~HasBrackets(llm.response)
          \/ ~JsonLoads(Bracketed(llm.response)).ok
          \/ JsonLoads(Bracketed(llm.response)).value = <<>>

SlideFields == {"identifier", "main_title", "subtitle", "key_points"}

\* process_content_to_structure has returned a structure
StructureReturned == pc = "done" /\ result.kind = "return"

----------------------------------------------------------------------------
(* Properties *)

\* extract_slides_from_content has just returned or raised
Extracted == (pc = "loop" /\ i = 1) \/ (pc = "done" /\ i = 0)

\* C1: for a content text made of N >= 1 slide blocks, each starting with a
\* `### Slide <n>` header line, extract_slides_from_content returns exactly N
\* sections, the i-th being the text of the body of the i-th block (the blank
\* space around it aside, which the header pattern and `$` consume).
C1_OneSectionPerBlock ==
    (Extracted /\ WellFormedContent(content)) =>
        /\ Len(slide_sections) = Cardinality(HeaderLines(content))
        /\ \A j \in 1..Len(slide_sections) :
              Strip(slide_sections[j]) = Strip(BlockBody(content, j))

C1_Witness ==
    /\ Extracted
    /\ WellFormedContent(content)
    /\ Cardinality(HeaderLines(content)) = 2
    /\ Len(slide_sections) = 2
    /\ slide_sections[1] # slide_sections[2]

\* C2: extract_slides_from_content raises ContentParsingError for an empty or
\* whitespace-only content and for a content in which neither strategy finds a
\* section, and returns at least one section in every other case.
C2_NeverEmpty ==
    Extracted =>
        IF \/ Strip(content) = <<>>
           \/ PrimarySections(content, 1) = <<>> /\ FallbackSections(content) = <<>>
        THEN /\ result.kind = "raise"
             /\ result.error = "ContentParsingError"
             /\ slide_sections = <<>>
        ELSE Len(slide_sections) >= 1

C2_Witness ==
    /\ pc = "done"
    /\ Strip(content) # <<>>
    /\ PrimarySections(content, 1) = <<>> /\ FallbackSections(content) = <<>>
    /\ result = Raised("ContentParsingError", "No valid slide sections found in content")

\* C3: the description of a numbered key point is its description lines, each
\* without its leading bullet marker whichever of `+`, `*`, `-` it is, joined
\* in source order with one space: `1. A` followed by `+ desc one` yields the
\* point "A" with the description "desc one".
C3_BulletsStripped ==
    (pc = "parse_returned" /\ OneItemWithBullets(slide_text)) =>
        LET ls == LinesOf(slide_text)
        IN  slide_data.key_points =
                <<[point |-> ItemTitle(ls[2]),
                   description |-> JoinSP([k \in 1..(Len(ls) - 2) |-> BulletText(ls[k + 2])])]>>

\* C4: a section without numbered key points parses to a slide with no key
\* points, and the structure process_content_to_structure returns holds, in
\* source order, the slides of the sections that have key points and no other.
C4_EmptySlidesExcluded ==
    /\ (pc = "parsed" /\ ~HasItemLine(slide_text)) => slide_data.key_points = <<>>
    /\ StructureReturned =>
          LET parsed == [k \in 1..Len(slide_sections) |->
                            parse_slide_section(slide_sections[k], k)]
          IN  result.value.slides =
                  SelectSeq(parsed, LAMBDA d : d.key_points # <<>>)

\* two blocks of which only the second has no numbered points give the one
\* slide of the first
C4_Witness ==
    /\ StructureReturned
    /\ Len(slide_sections) = 2
    /\ HasItemLine(slide_sections[1]) /\ ~HasItemLine(slide_sections[2])
    /\ Len(result.value.slides) = 1
    /\ result.value.slides[1].identifier = <<"SL", "1">>

\* C5: process_content_to_structure returns a structure with at least one
\* slide, each with at least one key point, or raises ContentParsingError.
C5_SlidesNonEmpty ==
    (pc = "done") =>
        \/ /\ result.kind = "return"
           /\ result.value.slides # <<>>
           /\ \A k \in 1..Len(result.value.slides) :
                 result.value.slides[k].key_points # <<>>
        \/ /\ result.kind = "raise"
           /\ result.error = "ContentParsingError"

\* sections were found and none of them has key points
C5_Witness ==
    /\ pc = "done"
    /\ slide_sections # <<>>
    /\ result = Raised("ContentParsingError", "No valid slides generated")

\* C7: the main_title of the returned structure is the title parsed from the
\* first section, or "Presentation" when that is empty, whatever the later
\* sections carry and whether or not the first section is kept.
C7_MainTitleFromFirst ==
    StructureReturned =>
        LET t == parse_slide_section(slide_sections[1], 1).main_title
        IN  result.value.main_title = IF t = <<>> THEN <<"Presentation">> ELSE t

\* the first section is dropped, a later one has another title
C7_Witness ==
    /\ StructureReturned
    /\ Len(slide_sections) = 2
    /\ parse_slide_section(slide_sections[1], 1).key_points = <<>>
    /\ parse_slide_section(slide_sections[2], 2).main_title = <<"y">>
    /\ result.value.main_title = <<"x">>

\* C8: when the first slide block has no `Main Title:` / `Title:` field line,
\* the main_title of the structure is "Presentation", also when the block has
\* a `Subtitle:` field line.
C8_FallbackTitle ==
    (StructureReturned /\ ~HasTitleLine(slide_sections[1])) =>
        result.value.main_title = <<"Presentation">>

\* C6: parse_slide_section returns the identifier SL<p> exactly when the
\* section has no Identifier/ID field, and with such a field the identifier
\* is the token of that field.
C6_DefaultIdentifierIff ==
    (pc = "parse_returned") =>
        /\ (slide_data.identifier = <<"SL", ToString(slide_num)>>)
              <=> ~HasIdField(slide_text)
        /\ HasIdField(slide_text) =>
              slide_data.identifier = FirstIdToken(slide_text)

\* C9: parse_slide_section always returns a record with the four fields, and
\* a field the section does not have holds its default: SL<p>, the empty
\* string, the empty sequence.
C9_NeverFailsDefaults ==
    (pc = "parse_returned") =>
        /\ result.kind = "return"
        /\ DOMAIN result.value = SlideFields
        /\ ~HasIdField(slide_text) =>
              result.value.identifier = <<"SL", ToString(slide_num)>>
        /\ ~HasTitleLine(slide_text) => result.value.main_title = <<>>
        /\ ~HasSubtitleLine(slide_text) => result.value.subtitle = <<>>
        /\ ~HasItemLine(slide_text) => result.value.key_points = <<>>

\* C10: enhance_slide_with_llm always returns, and when the model call
\* throws, the response has no bracketed array, the bracketed text is not
\* JSON or it is the empty list, it returns the key points of the slide
\* unchanged.
C10_OriginalOnFailure ==
    (pc = "enhance_returned") =>
        /\ result.kind = "return"
        /\ EnhancementFails => result.value = slide_data.key_points

\* a response whose bracketed text is not JSON, for a slide of two points
C10_Witness ==
    /\ pc = "enhance_returned"
    /\ llm.kind = "response"
    /\ HasBrackets(llm.response)
    /\ ~JsonLoads(Bracketed(llm.response)).ok
    /\ Len(slide_data.key_points) = 2
    /\ result = Returned(slide_data.key_points)

PointTexts(slide) ==
    LET ps == SelectSeq(slide.paragraphs, LAMBDA q : q.level = "point")
    IN  [k \in 1..Len(ps) |-> SubSeq(ps[k].text, 3, Len(ps[k].text))]
DescriptionTexts(slide) ==
    LET ps == SelectSeq(slide.paragraphs, LAMBDA q : q.level = "description")
    IN  [k \in 1..Len(ps) |-> ps[k].text]

\* the descriptions of an entry that say more than the point itself
OwnDescriptions(entry) ==
    LET ks == SelectSeq(entry.key_points,
                  LAMBDA kp : kp.description # <<>> /\ kp.description # kp.point)
    IN  [k \in 1..Len(ks) |-> ks[k].description]

\* C13: a structure of K >= 0 entries is rendered as K+1 slides: the title
\* slide, then one content slide per entry in the order of the entries, the
\* i-th with the identifier, the subtitle and the key points of the i-th entry.
C13_OneSlidePerEntry ==
    (pc = "render_returned" /\ result.kind = "return") =>
        LET entries == structure.slides
            doc == disk.document
        IN  /\ Len(doc) = Len(entries) + 1
            /\ doc[1].layout = "title"
            /\ \A k \in 1..Len(entries) :
                  /\ doc[k + 1].layout = "blank"
                  /\ doc[k + 1].identifier = entries[k].identifier
                  /\ doc[k + 1].subtitle = entries[k].subtitle
                  /\ PointTexts(doc[k + 1]) =
                        [j \in 1..Len(entries[k].key_points) |->
                            entries[k].key_points[j].point]
                  /\ DescriptionTexts(doc[k + 1]) = OwnDescriptions(entries[k])

\* three entries, the second unlike the other two, rendered as four slides
C13_Witness ==
    /\ pc = "render_returned"
    /\ result = Returned(OutputFilename)
    /\ Len(structure.slides) = 3
    /\ structure.slides[1].identifier = <<"SL", "1">>
    /\ structure.slides[2].identifier = <<"SL", "2">>
    /\ Len(disk.document) = 4
    /\ disk.document[3].identifier = <<"SL", "2">>

\* C14: create_presentation either returns the destination path with the
\* document written there, or raises SlideGenerationError with no file
\* written at the destination.
C14_PathOrErrorWithoutFile ==
    (pc = "render_returned") =>
        \/ /\ result = Returned(OutputFilename)
           /\ disk.file = "saved"
        \/ /\ result.kind = "raise"
           /\ result.error = "SlideGenerationError"
           /\ disk.file = "none"

\* C12: when enhancement is requested and the language model failed to
\* load, the generation request fails with ModelLoadError; when enhancement
\* is not requested the request does not fail for the model.
C12_ModelLoadErrorWhenRequested ==
    (pc = "generated" /\ slides_model = "load_failed") =>
        IF use_llm_enhancement
        THEN result.kind = "raise" /\ result.error = "ModelLoadError"
        ELSE result.kind = "raise" => result.error # "ModelLoadError"

\* C15: create_presentation runs at most once per request and only on the
\* structure process_content_to_structure returned; when that call raises
\* ContentParsingError the error stays the result of the request, the
\* renderer is not called and nothing is created on the disk.
C15_RenderOnlyAfterStructure ==
    /\ [](/\ render_calls <= 1
          /\ render_calls = 1 =>
                /\ all_slides # <<>>
                /\ structure = Structure
          /\ (pc = "generated" /\ structure = NoStructure) =>
                /\ result.kind = "raise"
                /\ result.error = "ContentParsingError"
                /\ render_calls = 0
                /\ disk = EmptyDisk)
    /\ [][(pc = "done" /\ result.kind = "raise") =>
             (result' = result /\ render_calls' = 0 /\ disk' = EmptyDisk)]_vars

\* a request whose content has slide blocks without key points ends with
\* the ContentParsingError of the structuring stage, nothing rendered
C15_Witness ==
    /\ pc = "generated"
    /\ slide_sections # <<>>
    /\ result = Raised("ContentParsingError", "No valid slides generated")
    /\ render_calls = 0
    /\ disk = EmptyDisk

\* C19: within one process_content_to_structure call the enhancer is entered
\* at most once per section and in section order, only for a section that
\* parsed to key points, never when use_llm_enhancement is false; after a
\* failed enhancement the slide keeps its unenhanced key points.
C19_EnhanceOncePerSection ==
    /\ \A a, b \in 1..Len(enhance_calls) :
          a < b => enhance_calls[a] < enhance_calls[b]
    /\ ~use_llm_enhancement => enhance_calls = <<>>
    /\ (pc = "enhanced") =>
          LET parsed == parse_slide_section(slide_sections[i], i).key_points
          IN  /\ enhance_calls[Len(enhance_calls)] = i
              /\ parsed # <<>>
              /\ llm.kind # "response" => slide_data.key_points = parsed

\* of two sections only the second has key points and is enhanced
C19_Witness ==
    /\ pc = "done"
    /\ result.kind = "return"
    /\ Len(slide_sections) = 2
    /\ enhance_calls = <<2>>

\* the key-points block of t: M >= 1 numbered items at the start of a line,
\* each followed by one or more bullet lines
ItemStarts(t) == {k \in 2..Len(LinesOf(t)) : IsItemLine(LinesOf(t)[k])}
ItemsWithBullets(t) ==
    LET ls == LinesOf(t)
    IN  /\ At(t, Len(t)) = "NL"
        /\ Len(ls) >= 3
        /\ ls[1] = <<"KPD:">>
        /\ IsItemLine(ls[2])
        /\ IsBulletLine(ls[Len(ls)])
        /\ \A k \in 2..Len(ls) : IsItemLine(ls[k]) \/ IsBulletLine(ls[k])
        /\ \A k \in 2..(Len(ls) - 1) : IsItemLine(ls[k]) => IsBulletLine(ls[k + 1])

\* the line of the j-th item, and the words of its own bullet lines
NthItem(t, j) ==
    CHOOSE k \in ItemStarts(t) : Cardinality({m \in ItemStarts(t) : m < k}) = j - 1
WordsOf(l) == SelectSeq(l, LAMBDA c : c \notin BulletMarkers \cup {"SP"})
OwnWords(t, j) ==
    LET ls == LinesOf(t)
        a == NthItem(t, j)
        later == {m \in ItemStarts(t) : m > a}
        b == IF later = {} THEN Len(ls) ELSE SetMin(later) - 1
    IN  Flatten([k \in 1..(b - a) |-> WordsOf(BulletText(ls[a + k]))])

\* C20: a key-points block of M >= 1 numbered items, each at the start of a
\* line and followed by one or more bullet lines, parses to exactly M key
\* points in source order, the i-th with the title of the i-th item as point
\* and the text of the i-th item's own bullet lines, and no other, as
\* description.
C20_OnePointPerItem ==
    (pc = "parse_returned" /\ ItemsWithBullets(slide_text)) =>
        LET ls == LinesOf(slide_text)
            kps == slide_data.key_points
        IN  /\ Len(kps) = Cardinality(ItemStarts(slide_text))
            /\ \A j \in 1..Len(kps) :
                  /\ kps[j].point = ItemTitle(ls[NthItem(slide_text, j)])
                  /\ WordsOf(kps[j].description) = OwnWords(slide_text, j)

\* two items with unlike titles and unlike descriptions
C20_Witness ==
    /\ pc = "parse_returned"
    /\ ItemsWithBullets(slide_text)
    /\ Len(slide_data.key_points) = 2
    /\ slide_data.key_points[1].point # slide_data.key_points[2].point
    /\ WordsOf(slide_data.key_points[1].description)
          # WordsOf(slide_data.key_points[2].description)

\* a text holds a symbol, or two symbols in a row
Holds(t, c) == \E p \in 1..Len(t) : t[p] = c
HoldsPair(t, c, d) == \E p \in 1..Len(t) : t[p] = c /\ At(t, p + 1) = d

\* the validator logged an error about a field of slide k
ErrorLogged(k, about) == \E j \in 1..Len(log) : log[j] = Logged("error", k, about, 0)

\* every check was run on slide k: its validation was announced and each
\* field it lacks was reported
SlideChecked(k) ==
    /\ \E j \in 1..Len(log) : log[j] = Logged("info", k, "Validating", 0)
    /\ ~Holds(slides[k], "Identifier:") => ErrorLogged(k, "Identifier")
    /\ ~HoldsPair(slides[k], "SP", "Title:") => ErrorLogged(k, "Main Title")
    /\ ~HoldsPair(slides[k], "Sub", "Title:") => ErrorLogged(k, "Subtitle")
    /\ ~Holds(slides[k], "KPD:") => ErrorLogged(k, "Key Points and Description")
    /\ (Holds(slides[k], "KPD:") /\ ~Holds(slides[k], ".")) =>
          ErrorLogged(k, "numbered key points")

\* C16: validate_slide_content reports an error for a slide without a
\* `Subtitle:` field, does not raise, and still runs every check on each
\* slide after it.
C16_ValidationContinues ==
    (pc = "validated") =>
        /\ result.kind = "return"
        /\ \A k \in 1..Len(slides) : SlideChecked(k)

\* the first of two slides has no subtitle, the second no main title, and
\* both are reported
C16_Witness ==
    /\ pc = "validated"
    /\ Len(slides) = 2
    /\ ~HoldsPair(slides[1], "Sub", "Title:")
    /\ ErrorLogged(1, "Subtitle")
    /\ HoldsPair(slides[2], "Sub", "Title:")
    /\ ErrorLogged(2, "Main Title")

\* C17: validate_slide_content returns True when every slide passes all the
\* error-level checks and False when a slide fails one of them.
C17_ReturnsWellFormed ==
    (pc = "validated") =>
        result = Returned(IF slides # <<>> /\ ~HasError(log)
                          THEN "True" ELSE "False")

\* C18: the validator checks the slides the primary pattern of
\* extract_slides_from_content finds: as many, in the same order, slide k
\* being the text of the k-th primary section (surrounding whitespace aside).
C18_SameSlidesAsPrimary ==
    (pc = "validated") =>
        LET primary == PrimarySections(content, 1)
        IN  /\ Len(slides) = Len(primary)
            /\ \A k \in 1..Len(slides) : slides[k] = Strip(primary[k])

\* c has a horizontal-rule line `---`
HasRuleLine(c) ==
    \E k \in 1..Len(SplitLines(c)) : Strip(SplitLines(c)[k]) = <<"-", "-", "-">>

\* C21: for a content whose slide blocks are separated by a `---` line, no
\* description of the returned structure holds text of that line, neither
\* `---` nor a remnant such as `--`.
C21_RuleNeverInDescription ==
    (StructureReturned /\ HasRuleLine(content)) =>
        \A k \in 1..Len(result.value.slides) :
            \A j \in 1..Len(result.value.slides[k].key_points) :
                ~HoldsPair(result.value.slides[k].key_points[j].description, "-", "-")

\* the lines of t that are not empty, each without its indentation
IndentedLines(t) ==
    LET ls == SelectSeq(LinesOf(t), LAMBDA l : l # <<>>)
    IN  [k \in 1..Len(ls) |-> Unindent(ls[k])]

\* t is a key-points block whose every line is indented: the header, then
\* M >= 1 numbered items, each followed by one or more bullet lines
IndentedItemsWithBullets(t) ==
    LET ls == IndentedLines(t)
    IN  /\ At(t, Len(t)) = "NL"
        /\ \A k \in 1..Len(LinesOf(t)) :
              LinesOf(t)[k] # <<>> => At(LinesOf(t)[k], 1) = "SP"
        /\ Len(ls) >= 3
        /\ ls[1] = <<"KPD:">>
        /\ IsItemLine(ls[2])
        /\ IsBulletLine(ls[Len(ls)])
        /\ \A k \in 2..Len(ls) : IsItemLine(ls[k]) \/ IsBulletLine(ls[k])
        /\ \A k \in 2..(Len(ls) - 1) : IsItemLine(ls[k]) => IsBulletLine(ls[k + 1])

\* the titles of the numbered items of t, in source order
IndentedItemTitles(t) ==
    LET items == SelectSeq(IndentedLines(t), IsItemLine)
    IN  [k \in 1..Len(items) |-> ItemTitle(items[k])]

\* C22: a key-points block of M numbered items whose every line is indented
\* with leading spaces parses to M key points, the i-th with the title of the
\* i-th item as point, and not to one key point whose description absorbs the
\* later items.
C22_IndentedItemsSeparated ==
    (pc = "parse_returned" /\ IndentedItemsWithBullets(slide_text)) =>
        LET kps == slide_data.key_points
        IN  /\ Len(kps) = Len(IndentedItemTitles(slide_text))
            /\ \A j \in 1..Len(kps) :
                  /\ kps[j].point = IndentedItemTitles(slide_text)[j]
                  /\ ~Holds(kps[j].description, ".")

\* C23: the generator has no `tokenizer` and no `model`, so every enhancement
\* call ends with the AttributeError of the first read and keeps the key
\* points: for every content, process_content_to_structure with
\* use_llm_enhancement=True returns the structure, or raises the error, that
\* it gives with use_llm_enhancement=False.
C23_EnhancementChangesNothing ==
    /\ llm.kind \in {"none", "AttributeError"}
    /\ (pc = "done") => result = process_content_to_structure(content)

\* enhancement requested, the enhancer entered for both sections, and the
\* structure returned holds the parsed key points
C23_Witness ==
    /\ pc = "done"
    /\ use_llm_enhancement
    /\ enhance_calls = <<1, 2>>
    /\ llm = AttrError
    /\ result.kind = "return"
    /\ Len(result.value.slides) = 2
    /\ result = process_content_to_structure(content)

\* a `Main Title:` / `Title:` line and a `Subtitle:` line
IsTitleLine(l) ==
    \/ At(Unindent(l), 1) = "Title:"
    \/ At(Unindent(l), 1) = "Main" /\ At(Unindent(l), 2) = "SP"
       /\ At(Unindent(l), 3) = "Title:"
IsSubtitleLine(l) == At(Unindent(l), 1) = "Sub" /\ At(Unindent(l), 2) = "Title:"

\* the first title line of t, and the first subtitle line of t, has nothing
\* after its label
TitleLabelAlone(t) ==
    LET ls == SplitLines(t)
        ks == {k \in 1..Len(ls) : IsTitleLine(ls[k])}
    IN  ks # {} /\ Strip(ls[SetMin(ks)]) \in {<<"Main", "SP", "Title:">>, <<"Title:">>}
SubtitleLabelAlone(t) ==
    LET ls == SplitLines(t)
        ks == {k \in 1..Len(ls) : IsSubtitleLine(ls[k])}
    IN  ks # {} /\ Strip(ls[SetMin(ks)]) = <<"Sub", "Title:">>

\* C24: main_title and subtitle are the rest of the line of their label:
\* when the `Main Title:` or the `Subtitle:` label has nothing after it on its
\* line, the field is the empty string, never text of a following line.
C24_FieldFromOwnLine ==
    (pc = "parse_returned") =>
        /\ TitleLabelAlone(slide_text) =>
              slide_data.main_title = <<>>
        /\ SubtitleLabelAlone(slide_text) =>
              slide_data.subtitle = <<>>

\* a header line `### Slide <n>` with k emphasis markers on each side
IsEmphasizedHeader(l, k) ==
    /\ Len(l) = 5 + 2 * k
    /\ l[1] = "###" /\ l[2] = "SP"
    /\ \A j \in 1..k : l[2 + j] = "*" /\ l[5 + k + j] = "*"
    /\ l[3 + k] = "Slide" /\ l[4 + k] = "SP" /\ l[5 + k] \in Digits

\* the text c with its header lines written without emphasis markup
PlainHeaders(c) ==
    LET ls == SplitLines(c)
    IN  JoinNL([k \in 1..Len(ls) |->
                   IF \E n \in 1..MaxStars : IsEmphasizedHeader(ls[k], n)
                   THEN <<"###", "SP", "Slide", "SP", ls[k][Len(ls[k]) - (Len(ls[k]) - 5) \div 2]>>
                   ELSE ls[k]])

\* C25: a content whose headers are written `### **Slide X**` is split by the
\* primary pattern, one section per header, into the sections of the same
\* content with headers written `### Slide X`; the fallback is not used.
C25_EmphasizedHeadersSplit ==
    (pc = "extract_returned" /\ WellFormedContent(PlainHeaders(content))) =>
        /\ PrimarySections(content, 1) # <<>>
        /\ result = Returned(PrimarySections(PlainHeaders(content), 1))

\* C26: the fallback strategy runs only when the primary strategy finds no
\* section, and every section it returns is longer than 50 characters,
\* measured after trimming the surrounding whitespace.
C26_FallbackFragmentsLong ==
    (Extracted /\ pc = "loop") =>
        LET primary == PrimarySections(content, 1)
        IN  /\ primary # <<>> => slide_sections = primary
            /\ primary = <<>> =>
                  \A k \in 1..Len(slide_sections) :
                      /\ slide_sections[k] = Strip(slide_sections[k])
                      /\ CharLen(slide_sections[k]) > MinFragmentLen

\* t is a key-points block of numbered items, with or without bullet lines,
\* in which an item without description lines is directly followed by
\* another item
ItemsSomeBare(t) ==
    LET ls == LinesOf(t)
    IN  /\ At(t, Len(t)) = "NL"
        /\ Len(ls) >= 3
        /\ ls[1] = <<"KPD:">>
        /\ IsItemLine(ls[2])
        /\ \A k \in 2..Len(ls) : IsItemLine(ls[k]) \/ IsBulletLine(ls[k])
        /\ \E k \in 2..(Len(ls) - 1) : IsItemLine(ls[k]) /\ IsItemLine(ls[k + 1])

\* C27: a numbered item with a title and no description lines, directly
\* followed by another numbered item, yields its own key point with an empty
\* description, and the following item a separate key point: the block parses
\* to one key point per item, and the title line of an item is never inside
\* the description of another point.
C27_BareItemOwnPoint ==
    (pc = "parse_returned" /\ ItemsSomeBare(slide_text)) =>
        LET ls == LinesOf(slide_text)
            kps == slide_data.key_points
        IN  /\ Len(kps) = Cardinality(ItemStarts(slide_text))
            /\ \A j \in 1..Len(kps) :
                  /\ kps[j].point = ItemTitle(ls[NthItem(slide_text, j)])
                  /\ OwnWords(slide_text, j) = <<>> => kps[j].description = <<>>
                  /\ ~Holds(kps[j].description, ".")

\* C28: when validate_slide_content logs no error for a content,
\* process_content_to_structure on the same content, enhancement disabled,
\* returns a structure with one slide for every slide the validator checked:
\* no accepted section is skipped for lack of key points.
C28_AcceptedContentStructured ==
    (pc = "validated" /\ ~HasError(log)) =>
        /\ process_content_to_structure(content).kind = "return"
        /\ Len(process_content_to_structure(content).value.slides) = Len(slides)

\* the closing message "All slides match the expected pattern." was logged
ClosingLogged ==
    \E j \in 1..Len(log) : log[j] = Logged("info", 0, "All slides match", 0)

\* C29: validate_slide_content logs the closing message "All slides match
\* the expected pattern." only on a run in which no error was logged for a
\* slide.
C29_ClosingOnlyWithoutError ==
    (pc = "validated" /\ ClosingLogged) => ~HasError(log)

\* load_model has returned normally and the model is still unloaded
ReturnedUnloaded == slides_model = "load_failed"

\* C30: load_model raises ModelLoadError when the load fails and never
\* returns normally with the model unloaded, so get_model, called after a
\* load_model that returned normally, returns the model and does not raise.
C30_LoadFailureRaises ==
    /\ ~ReturnedUnloaded
    /\ (pc = "model_read" /\ slides_model # "new") => result.kind = "return"

====
